---- MODULE Spec2Model ----
(***************************************************************************)
(* Model of the in-process multi-agent messaging substrate:                *)
(*   agent.py            Agent (send_message / receive_message / handlers) *)
(*   message_handler.py  MessageBus (register / deliver / broadcast)       *)
(*   coordinator_agent.py CoordinatorAgent (handle_request)                *)
(*                                                                         *)
(* Delivery is a synchronous nested call chain, so every public call is    *)
(* one action whose effect is computed by the recursive operators below.   *)
(* A "world" w is the part of the program state a call chain can change,   *)
(* plus the record of what the chain did:                                  *)
(*   w.context  context list of every agent object                         *)
(*   w.hist     history: every message an agent appended to its context    *)
(*   w.trace    the calls made so far inside the current public call       *)
(*   w.exc      the exception currently propagating ("none" if none)       *)
(* llm is the answer of the generation capability (self.llm.generate) to   *)
(* the decomposition prompt; it is an external collaborator, so its answer *)
(* is drawn when the system is set up.                                     *)
(* iter is the dict iterator of a broadcast whose loop is interleaved with *)
(* the calls of another thread (third system, at the end of the state      *)
(* machines); elsewhere a broadcast is one step and iter stays idle.       *)
(***************************************************************************)
EXTENDS Integers, Sequences, FiniteSets, TLC

VARIABLES agent_id, max_context, message_bus, task_routes, context,
          agents, hist, last, nops, llm, iter

vars == <<agent_id, max_context, message_bus, task_routes, context,
          agents, hist, last, nops, llm, iter>>

-----------------------------------------------------------------------------
(* Bounds *)

\* largest max_context given to an agent
MaxCtx == 2

\* number of public message operations (deliver, broadcast, send, receive)
MaxOps == 3

-----------------------------------------------------------------------------
(* Values *)

NoExc == "none"

\* Python's None, as a registry key / field value
None == "None"

\* the agent objects constructed by the program
Objs == {"o1", "o2", "o3"}

\* the message bus object (there is one)
Bus == "bus"

\* payload shapes: the Python type of the payload and its len() where defined
EmptyDict == [shape |-> "dict", size |-> 0]

PongPayload == [shape |-> "dict", size |-> 1, status |-> "alive"]

Message(s, r, t, p) == [sender |-> s, recipient |-> r, task |-> t, payload |-> p]

RequiredFields == {"sender", "recipient", "task"}

\* dict.get(key, default)
Get(m, key, default) == IF key \in DOMAIN m THEN m[key] ELSE default

-----------------------------------------------------------------------------
(* Logging *)

\* Evaluating logger.WARNING / logger.INFO / logger.ERROR in agent.py, where
\* logger is the logging.Logger returned by setup_logger: a Logger object has
\* no such attribute, so the argument expression raises AttributeError before
\* log_with_agent_id is entered.
LoggerAttr(level) == "AttributeError"

\* log_with_agent_id(logger, self.agent_id, logger.<level>, ...) in agent.py
log_with_agent_id(w, level) ==
    IF LoggerAttr(level) = NoExc THEN w ELSE [w EXCEPT !.exc = LoggerAttr(level)]

-----------------------------------------------------------------------------
(* Trace of the calls made inside one public call *)

Event(ev, at, m, h) == [ev |-> ev, at |-> at, msg |-> m, h |-> h]

Note(w, ev, at, m, h) == [w EXCEPT !.trace = Append(@, Event(ev, at, m, h))]

Raised(w) == w.exc # NoExc

-----------------------------------------------------------------------------
(* MessageBus registry: a dict, i.e. an insertion-ordered map id -> object *)

HasKey(reg, id) == \E i \in 1..Len(reg) : reg[i].id = id

\* self.agents.get(recipient)
Lookup(reg, id) == (CHOOSE i \in 1..Len(reg) : reg[i].id = id)

\* variant: the registry kept as a list of entries, a new one always appended
RegistrySetAppend(reg, id, o) == Append(reg, [id |-> id, obj |-> o])

\* self.agents[agent.agent_id] = agent
RegistrySet(reg, id, o) ==
    IF HasKey(reg, id)
    THEN [i \in 1..Len(reg) |-> IF reg[i].id = id THEN [id |-> id, obj |-> o] ELSE reg[i]]
    ELSE Append(reg, [id |-> id, obj |-> o])

-----------------------------------------------------------------------------
(* Agent *)

\* variant: evicts only once the context has outgrown max_context (> for >=)
RecordContextLate(ctx, m, k) ==
    IF Len(ctx) > k THEN Append(Tail(ctx), m) ELSE Append(ctx, m)

\* variant: evicts the newest entry instead of the oldest (pop() for pop(0))
RecordContextNewest(ctx, m, k) ==
    IF Len(ctx) >= k THEN Append(SubSeq(ctx, 1, Len(ctx) - 1), m) ELSE Append(ctx, m)

\* variant: evicts whenever the context is non-empty (the capacity test lost)
RecordContextEager(ctx, m, k) ==
    IF Len(ctx) >= 1 THEN Append(Tail(ctx), m) ELSE Append(ctx, m)

\* variant: the message is not recorded at all
RecordContextDrop(ctx, m, k) == ctx

\* lines 55-57 of receive_message: evict the oldest entry when full, append
RecordContext(ctx, m, k) ==
    IF Len(ctx) >= k THEN Append(Tail(ctx), m) ELSE Append(ctx, m)

\* Agent.process_data: the item count reported in the summary
process_data(payload) ==
    [summary |-> IF payload.shape \in {"list", "tuple", "dict"} THEN payload.size ELSE 0]

\* CoordinatorAgent.decompose_request
decompose_request(payload) ==
    << [agent |-> "research_agent", task |-> "process_data", payload |-> payload] >>

RECURSIVE deliver(_, _)
RECURSIVE receive_message(_, _, _)
RECURSIVE send_message(_, _, _, _, _)
RECURSIVE CallHandler(_, _, _, _, _)
RECURSIVE SendAll(_, _, _, _)

\* variant: the missing bus goes unnoticed and the message is lost silently
NoTransportSilent(w) == w

\* raise RuntimeError("No message bus available to send message")
NoTransport(w) == [w EXCEPT !.exc = "RuntimeError"]

\* Agent.send_message
send_message(w, o, recipient, task, payload) ==
    LET message == Message(agent_id[o], recipient, task, payload)
    IN  IF message_bus[o] = None
        THEN NoTransport(w)
        ELSE deliver(w, message)

\* Agent.handle_ping
handle_ping(w, o, sender, payload) ==
    IF sender = agent_id[o]
    THEN log_with_agent_id(w, "INFO")
    ELSE send_message(w, o, sender, "pong", PongPayload)

\* Agent.handle_process_data
handle_process_data(w, o, sender, payload) ==
    send_message(w, o, sender, "data_processed",
                 [shape |-> "dict", size |-> 1, result |-> process_data(payload)])

\* Agent.handle_unknown_task
handle_unknown_task(w, o, task, payload) == log_with_agent_id(w, "INFO")

\* the loop of CoordinatorAgent.handle_request over subtasks[i..]
SendAll(w, o, subtasks, i) ==
    IF i > Len(subtasks) THEN w
    ELSE LET w1 == send_message(w, o, subtasks[i].agent, subtasks[i].task,
                                subtasks[i].payload)
         IN  IF Raised(w1) THEN w1 ELSE SendAll(w1, o, subtasks, i + 1)

\* CoordinatorAgent.handle_request (logger.info of the module logger is fine)
handle_request(w, o, sender, payload) ==
    SendAll(w, o, decompose_request(payload), 1)

-----------------------------------------------------------------------------
(* LLMCoordinator *)

\* a returned value, or the exception raised instead
Ret(v) == [exc |-> NoExc, val |-> v]

Raise(e) == [exc |-> e, val |-> <<>>]

\* data.get("topic", default): data is whatever the request carries under
\* "data"; only a dict has .get
DataGetTopic(data, default) ==
    IF data.shape = "dict" THEN Ret(Get(data, "topic", default))
    ELSE Raise("AttributeError")

\* LLMCoordinator.fallback_decompose (request.get needs a dict)
fallback_decompose(request) ==
    LET data == Get(request, "data", EmptyDict)
        task_type == Get(request, "type", "general")
    IN  IF request.shape # "dict" THEN Raise("AttributeError")
        ELSE IF task_type = "research"
        THEN LET t == DataGetTopic(data, "general research")
             IN  IF t.exc # NoExc THEN t
                 ELSE Ret(<< [agent |-> "research_agent", task |-> "research",
                              payload |-> [shape |-> "dict", size |-> 1, topic |-> t.val],
                              priority |-> 1, dependencies |-> <<>>] >>)
        ELSE IF task_type = "creative"
        THEN LET t == DataGetTopic(data, "")
             IN  IF t.exc # NoExc THEN t
                 ELSE Ret(<< [agent |-> "creative_agent", task |-> "create_content",
                              payload |-> [shape |-> "dict", size |-> 2, topic |-> t.val,
                                           content_type |-> "article"],
                              priority |-> 1, dependencies |-> <<>>] >>)
        ELSE Ret(<< [agent |-> "llm_agent", task |-> "analyze",
                     payload |-> [shape |-> "dict", size |-> 2, data |-> data,
                                  type |-> "general"],
                     priority |-> 1, dependencies |-> <<>>] >>)

\* LLMCoordinator.llm_decompose: a JSON list is returned as it is; a raising
\* generate, text that is not JSON and JSON that is not a list all end in
\* fallback_decompose (whose own exception is not caught at line 85)
llm_decompose(request) ==
    IF llm.kind = "list" THEN Ret(llm.val) ELSE fallback_decompose(request)

\* variant: the gate admits a dependency equal to the number of subtasks sent
DependenciesNotMetLax(dependencies, executed) ==
    /\ dependencies # <<>>
    /\ ~(\A d \in 1..Len(dependencies) : dependencies[d] <= Len(executed))

\* lines 147-150: the subtask at a position where executed subtasks were
\* already sent is gated out
DependenciesNotMet(dependencies, executed) ==
    /\ dependencies # <<>>
    /\ ~(\A d \in 1..Len(dependencies) : dependencies[d] < Len(executed))

RECURSIVE InsertByPriority(_, _)
\* s put into the priority-sorted list l, behind the entries of equal priority
InsertByPriority(l, s) ==
    IF l = <<>> THEN <<s>>
    ELSE IF Get(s, "priority", 1) < Get(l[1], "priority", 1) THEN <<s>> \o l
    ELSE <<l[1]>> \o InsertByPriority(Tail(l), s)

RECURSIVE EnumerateByPriority(_)
\* variant: the loop runs over the subtasks sorted by priority, as the
\* comment at line 139 announces
EnumerateByPriority(subtasks) ==
    IF subtasks = <<>> THEN <<>>
    ELSE InsertByPriority(EnumerateByPriority(SubSeq(subtasks, 1, Len(subtasks) - 1)),
                          subtasks[Len(subtasks)])

\* enumerate(subtasks) at line 141: the subtasks in list order
Enumerate(subtasks) == subtasks

RECURSIVE ComplexLoop(_, _, _, _, _)
\* the for loop of handle_complex_task from position i (index i - 1) on;
\* returns the world and the executed_tasks list
ComplexLoop(w, o, subtasks, i, executed) ==
    IF i > Len(subtasks) THEN [w |-> w, executed |-> executed]
    ELSE
      LET subtask == subtasks[i]
          w0 == Note(w, "evaluate", o, [index |-> i - 1], "")
      IN  IF ~({"agent", "task", "payload"} \subseteq DOMAIN subtask)
          THEN [w |-> [w0 EXCEPT !.exc = "KeyError"], executed |-> executed]
          ELSE IF DependenciesNotMet(Get(subtask, "dependencies", <<>>), executed)
          THEN ComplexLoop(Note(w0, "skip", o, [index |-> i - 1], ""),
                           o, subtasks, i + 1, executed)
          ELSE LET w1 == send_message(Note(w0, "dispatch", o, [index |-> i - 1], ""),
                                      o, subtask.agent, subtask.task, subtask.payload)
               IN  IF Raised(w1) THEN [w |-> w1, executed |-> executed]
                   ELSE ComplexLoop(w1, o, subtasks, i + 1, Append(executed, i - 1))

\* LLMCoordinator.handle_complex_task (llm_coordinator.py logs through
\* logging.INFO / logging.WARNING, which exist)
handle_complex_task(w, o, sender, payload) ==
    LET d == llm_decompose(payload)
    IN  IF d.exc # NoExc THEN [w EXCEPT !.exc = d.exc]
        ELSE LET r == ComplexLoop(w, o, Enumerate(d.val), 1, <<>>)
             IN  IF Raised(r.w) THEN r.w
                 ELSE send_message(r.w, o, sender, "coordination_complete",
                                   [shape |-> "dict", size |-> 3,
                                    subtasks |-> Len(d.val),
                                    executed |-> Len(r.executed),
                                    original_request |-> payload])

\* LLMCoordinator.decompose_request
llm_decompose_request(payload) ==
    LET data == Get(payload, "data", EmptyDict)
        request_type == Get(payload, "type", "general")
    IN  IF request_type = "research"
        THEN << [agent |-> "research_agent", task |-> "research", payload |-> data] >>
        ELSE IF request_type = "creative"
        THEN << [agent |-> "creative_agent", task |-> "create_content", payload |-> data] >>
        ELSE IF request_type = "analysis"
        THEN << [agent |-> "llm_agent", task |-> "analyze", payload |-> data] >>
        ELSE << [agent |-> "llm_agent", task |-> "process_data", payload |-> data] >>

\* LLMCoordinator.handle_request: payload.get needs a dict, len() a sized value
llm_handle_request(w, o, sender, payload) ==
    LET complex == Get(payload, "complex", FALSE)
        data == Get(payload, "data", EmptyDict)
    IN  IF payload.shape # "dict" THEN [w EXCEPT !.exc = "AttributeError"]
        \* len(data) is evaluated only when the complex flag is falsy
        ELSE IF ~complex /\ data.shape \notin {"dict", "list", "tuple", "str"}
        THEN [w EXCEPT !.exc = "TypeError"]
        ELSE IF complex \/ data.size > 3
        THEN handle_complex_task(w, o, sender, payload)
        ELSE SendAll(w, o, llm_decompose_request(payload), 1)

\* handler(sender, payload) for the bound method stored in task_routes
CallHandler(w, o, h, sender, payload) ==
    CASE h = "handle_ping"         -> handle_ping(w, o, sender, payload)
      [] h = "handle_process_data" -> handle_process_data(w, o, sender, payload)
      [] h = "handle_request"      -> handle_request(w, o, sender, payload)
      [] h = "handle_complex_task" -> handle_complex_task(w, o, sender, payload)
      [] h = "llm_handle_request"  -> llm_handle_request(w, o, sender, payload)

\* variant: only the recipient is required of a message
InvalidFormatRecipientOnly(message) == "recipient" \notin DOMAIN message

\* line 36: not all(field in message for field in required_fields); presence
\* is all that is tested, an empty string passes
InvalidFormat(message) == ~(RequiredFields \subseteq DOMAIN message)

\* variant: the agent takes whatever it is handed, whoever it is addressed to
NotForThisAgentNever(o, message) == FALSE

\* line 45: message["recipient"] != self.agent_id
NotForThisAgent(o, message) == message.recipient # agent_id[o]

\* Agent.receive_message
receive_message(w, o, message) ==
    LET w0 == Note(w, "receive", o, message, "")
    IN
    IF InvalidFormat(message)
    THEN log_with_agent_id(w0, "WARNING")
    ELSE IF NotForThisAgent(o, message)
    THEN log_with_agent_id(w0, "WARNING")
    ELSE
      LET w1 == [w0 EXCEPT !.context[o] = RecordContext(@, message, max_context[o]),
                           !.hist[o] = Append(@, message)]
          task == message.task
          payload == Get(message, "payload", EmptyDict)
          sender == message.sender
          w2 == log_with_agent_id(w1, "INFO")
      IN  IF Raised(w2) THEN w2
          ELSE IF task \in DOMAIN task_routes[o]
          THEN LET w3 == CallHandler(Note(w2, "handler", o, message, task_routes[o][task]),
                                     o, task_routes[o][task], sender, payload)
               IN  IF ~Raised(w3) THEN w3
                   ELSE IF w3.exc \in {"ValueError", "TypeError"}
                   THEN log_with_agent_id([w3 EXCEPT !.exc = NoExc], "ERROR")
                   ELSE log_with_agent_id([w3 EXCEPT !.exc = NoExc], "ERROR")
          ELSE handle_unknown_task(Note(w2, "handler", o, message, "handle_unknown_task"),
                                   o, task, payload)

-----------------------------------------------------------------------------
(* MessageBus *)

\* variant: the registry is indexed instead of probed (self.agents[recipient])
UnknownRecipientRaises(w, recipient) == [w EXCEPT !.exc = "KeyError"]

\* logger.warning(f"[MessageBus] Unknown recipient: {recipient}"): log only
UnknownRecipient(w, recipient) == w

\* MessageBus.deliver (the bus logs with logger.warning, which exists)
deliver(w, message) ==
    LET w0 == Note(w, "deliver", Bus, message, "")
        recipient == Get(message, "recipient", None)
    IN  IF HasKey(agents, recipient)
        THEN receive_message(w0, agents[Lookup(agents, recipient)].obj, message)
        ELSE UnknownRecipient(w0, recipient)

\* msg = message.copy(); msg["recipient"] = agent_id
WithRecipient(m, id) ==
    [f \in DOMAIN m \cup {"recipient"} |-> IF f = "recipient" THEN id ELSE m[f]]

RECURSIVE BroadcastFrom(_, _, _)
\* the loop of MessageBus.broadcast over self.agents.items()[i..]
BroadcastFrom(w, message, i) ==
    IF i > Len(agents) THEN w
    ELSE IF agents[i].id # Get(message, "sender", None)
    THEN LET w1 == receive_message(w, agents[i].obj, WithRecipient(message, agents[i].id))
         IN  IF Raised(w1) THEN w1 ELSE BroadcastFrom(w1, message, i + 1)
    ELSE BroadcastFrom(w, message, i + 1)

\* MessageBus.broadcast
broadcast(w, message) == BroadcastFrom(w, message, 1)

-----------------------------------------------------------------------------
(* Inputs *)

Ids == {"a", "b", "c", "u"}

ListPayload == [shape |-> "list", size |-> 2]

\* a message that has the three required fields, sender and task empty
EmptyFieldsMsg == Message("", "a", "", EmptyDict)

\* well-formed messages a caller hands to the bus or to an agent
\* ("u" is an id no agent carries, "noop" a task no agent routes)
ValidMsgs ==
    { Message("a", r, "ping", EmptyDict) : r \in {"a", "b", "u"} }
    \cup { Message("b", "c", "ping", EmptyDict),
           Message("b", "a", "process_data", ListPayload) }
    \cup { Message("u", r, "noop", EmptyDict) : r \in {"a", "b"} }
    \cup { Message("a", "a", "process_data", ListPayload), EmptyFieldsMsg }

\* messages lacking a required field (the test's message has no task)
MalformedMsgs ==
    { [sender |-> "a", recipient |-> "a"], [sender |-> "a", task |-> "ping"] }

InMsgs == ValidMsgs \cup MalformedMsgs

\* messages handed to broadcast (recipient is overwritten per agent)
BroadcastMsgs ==
    { Message("a", "b", "ping", EmptyDict), Message("u", "a", "noop", EmptyDict),
      [sender |-> "a", recipient |-> "a"] }

\* messages handed directly to o.receive_message: its own, and stray ones
ReceiveMsgs(o) ==
    { m \in InMsgs : "recipient" \in DOMAIN m => m.recipient \in {agent_id[o], "b"} }

NoMsg == [none |-> TRUE]

-----------------------------------------------------------------------------
(* State machine *)

\* variant: pong is routed to handle_ping as well
BaseRoutesPong == [t \in {"ping", "process_data", "pong"} |->
                     IF t = "process_data" THEN "handle_process_data" ELSE "handle_ping"]

\* Agent._init_task_routes
BaseRoutes == [t \in {"ping", "process_data"} |->
                 IF t = "ping" THEN "handle_ping" ELSE "handle_process_data"]

\* MockLLMInterface.generate returns one of its canned sentences: text that
\* is not JSON
MockAnswer == [kind |-> "text"]

\* no broadcast is iterating the registry
IterIdle == [state |-> "idle"]

\* o1 = Agent("a", bus, max_context=MaxCtx), o2 = Agent("b", bus, max_context=1),
\* o3 = Agent("c", max_context=1)   (no bus attached)
Init ==
    /\ agent_id = [o \in Objs |-> CASE o = "o1" -> "a" [] o = "o2" -> "b" [] o = "o3" -> "c"]
    /\ max_context = [o \in Objs |-> IF o = "o1" THEN MaxCtx ELSE 1]
    /\ message_bus = [o \in Objs |-> IF o = "o3" THEN None ELSE Bus]
    /\ task_routes = [o \in Objs |-> BaseRoutes]
    /\ context = [o \in Objs |-> <<>>]
    /\ agents = <<>>
    /\ hist = [o \in Objs |-> <<>>]
    /\ last = [op |-> "init", obj |-> Bus, msg |-> NoMsg, pre |-> [o \in Objs |-> <<>>],
               trace |-> <<>>, exc |-> NoExc]
    /\ nops = 0
    /\ llm = MockAnswer
    /\ iter = IterIdle

World == [context |-> context, hist |-> hist, trace |-> <<>>, exc |-> NoExc]

\* the state after a public call that ended in world w
Finish(op, obj, m, w) ==
    /\ context' = w.context
    /\ hist' = w.hist
    /\ last' = [op |-> op, obj |-> obj, msg |-> m, pre |-> context,
                trace |-> w.trace, exc |-> w.exc]
    /\ nops' = nops + 1
    /\ UNCHANGED <<agent_id, max_context, message_bus, task_routes, agents, llm, iter>>

\* bus.register(o)
Register(o) ==
    /\ agents' = RegistrySet(agents, agent_id[o], o)
    /\ agents' # agents
    /\ last' = [op |-> "register", obj |-> o, msg |-> NoMsg, pre |-> context,
                trace |-> <<>>, exc |-> NoExc]
    /\ UNCHANGED <<agent_id, max_context, message_bus, task_routes, context, hist, nops,
                   llm, iter>>

\* bus.deliver(m)
Deliver(m) ==
    /\ nops < MaxOps
    /\ Finish("deliver", Bus, m, deliver(World, m))

\* bus.broadcast(m)
Broadcast(m) ==
    /\ nops < MaxOps
    /\ Finish("broadcast", Bus, m, broadcast(World, m))

\* o.send_message(r, t, p)
Send(o, r, t, p) ==
    /\ nops < MaxOps
    /\ Finish("send", o, Message(agent_id[o], r, t, p), send_message(World, o, r, t, p))

\* o.receive_message(m)
Receive(o, m) ==
    /\ nops < MaxOps
    /\ Finish("receive", o, m, receive_message(World, o, m))

Next ==
    \/ \E o \in Objs : Register(o)
    \/ \E m \in InMsgs : Deliver(m)
    \/ \E m \in BroadcastMsgs : Broadcast(m)
    \/ \E o \in Objs, r \in {"a", "u"} : Send(o, r, "ping", EmptyDict)
    \/ \E o \in Objs : \E m \in ReceiveMsgs(o) : Receive(o, m)

Spec == Init /\ [][Next]_vars

-----------------------------------------------------------------------------
(* Coordinators: a second system, built from an LLMCoordinator, a worker and *)
(* a CoordinatorAgent that carries the same id as the LLMCoordinator         *)

\* number of public calls in the coordinator system
MaxCalls == 2

\* longest list of subtasks the generation capability answers with
MaxSubtasks == 3

\* max_context when the constructor is not given one
DefaultMaxContext == 100

\* CoordinatorAgent.__init__: the base routes and handle_request
CoordinatorRoutes ==
    [t \in {"ping", "process_data", "handle_request"} |->
        CASE t = "ping" -> "handle_ping"
          [] t = "process_data" -> "handle_process_data"
          [] t = "handle_request" -> "handle_request"]

\* LLMCoordinator.__init__: self.handle_request is the overriding method; the
\* routes orchestrate_workflow, mediate_agents and optimize_plan are not
\* exercised and left out
LLMCoordinatorRoutes ==
    [t \in {"ping", "process_data", "handle_request", "coordinate_complex_task"} |->
        CASE t = "ping" -> "handle_ping"
          [] t = "process_data" -> "handle_process_data"
          [] t = "handle_request" -> "llm_handle_request"
          [] t = "coordinate_complex_task" -> "handle_complex_task"]

\* the subtasks a decomposition is made of; priorities run against list order
SubtaskChoices ==
    { [agent |-> "llm_agent", task |-> "analyze", payload |-> EmptyDict,
       priority |-> 3, dependencies |-> <<>>],
      [agent |-> "research_agent", task |-> "research", payload |-> EmptyDict,
       priority |-> 1, dependencies |-> <<0>>],
      [agent |-> "llm_agent", task |-> "summarize", payload |-> EmptyDict,
       priority |-> 2, dependencies |-> <<5>>],
      [agent |-> "llm_agent", task |-> "plan", payload |-> EmptyDict,
       priority |-> 5, dependencies |-> <<0, 1>>] }

\* what self.llm.generate can do: raise, answer text that is not JSON, answer
\* JSON that is not a list, answer a list of subtasks, or a list whose item
\* lacks a key
LlmAnswers ==
    { [kind |-> "raises"], [kind |-> "text"], [kind |-> "json"] }
    \cup { [kind |-> "list", val |-> l] :
             l \in UNION { [1..n -> SubtaskChoices] : n \in 0..MaxSubtasks } }
    \cup { [kind |-> "list", val |-> << [agent |-> "llm_agent", task |-> "analyze"] >>] }

ReqResearch ==
    [shape |-> "dict", size |-> 2, type |-> "research",
     data |-> [shape |-> "dict", size |-> 1, topic |-> "t"]]

ReqResearchList ==
    [shape |-> "dict", size |-> 2, type |-> "research", data |-> ListPayload]

ReqCreative ==
    [shape |-> "dict", size |-> 2, type |-> "creative", data |-> EmptyDict]

ReqGeneral == [shape |-> "dict", size |-> 1, data |-> ListPayload]

\* the requests handed to handle_complex_task (the request only matters when
\* the decomposition falls back)
ComplexPayloads ==
    IF llm.kind = "list" THEN {ReqGeneral}
    ELSE {ReqResearch, ReqResearchList, ReqCreative, ReqGeneral}

\* who asks: "user" is no agent, "research_agent" is the worker
ComplexSenders == {"user", "research_agent"}

\* messages handed to the bus in the coordinator system; the requests to the
\* worker id and the self-addressed one are tried next to the answers of the
\* generation capability that are no list
CoordMsgs ==
    { Message("user", "coordinator", "handle_request", ReqGeneral),
      Message("user", "coordinator", "coordinate_complex_task", ReqGeneral),
      Message("coordinator", "research_agent", "process_data", ListPayload) }
    \cup IF llm.kind = "list" THEN {}
         ELSE { Message("user", "research_agent", "handle_request", ReqGeneral),
                Message("research_agent", "research_agent", "process_data",
                        ListPayload) }

\* the message handed to broadcast in the coordinator system
CoordBroadcastMsg == Message("user", "coordinator", "ping", EmptyDict)

\* the message handed directly to an agent's receive_message, whoever it is
CoordReceiveMsg == Message("coordinator", "research_agent", "process_data", ListPayload)

\* the ids a CoordinatorAgent is constructed with: its own, or the id of the
\* default worker of decompose_request
CoordinatorIds == {"coordinator", "research_agent"}

\* o1 = LLMCoordinator("coordinator", bus), o2 = Agent("research_agent", bus),
\* o3 = CoordinatorAgent(id, bus) with id "coordinator" or, next to the mock
\* LLM, "research_agent"
InitCoord ==
    /\ agent_id \in { [o \in Objs |-> CASE o = "o1" -> "coordinator"
                                        [] o = "o2" -> "research_agent"
                                        [] o = "o3" -> id] : id \in CoordinatorIds }
    /\ max_context = [o \in Objs |-> DefaultMaxContext]
    /\ message_bus = [o \in Objs |-> Bus]
    /\ task_routes = [o \in Objs |-> CASE o = "o1" -> LLMCoordinatorRoutes
                                       [] o = "o2" -> BaseRoutes
                                       [] o = "o3" -> CoordinatorRoutes]
    /\ context = [o \in Objs |-> <<>>]
    /\ agents = <<>>
    /\ hist = [o \in Objs |-> <<>>]
    /\ last = [op |-> "init", obj |-> Bus, msg |-> NoMsg, pre |-> [o \in Objs |-> <<>>],
               trace |-> <<>>, exc |-> NoExc]
    /\ nops = 0
    /\ llm \in LlmAnswers
    /\ agent_id["o3"] = "research_agent" => llm = MockAnswer
    /\ iter = IterIdle

\* bus.deliver(m) in the coordinator system
CoordDeliver(m) ==
    /\ nops < MaxCalls
    /\ Finish("deliver", Bus, m, deliver(World, m))

\* o.handle_complex_task(sender, payload), called on an LLMCoordinator
ComplexTask(o, sender, payload) ==
    /\ nops < MaxCalls
    /\ "coordinate_complex_task" \in DOMAIN task_routes[o]
    /\ Finish("handle_complex_task", o,
              Message(sender, agent_id[o], "coordinate_complex_task", payload),
              handle_complex_task(World, o, sender, payload))

\* a request that sets the complex flag
ReqComplexFlag == [shape |-> "dict", size |-> 2, complex |-> TRUE, data |-> ListPayload]

\* a request whose data has more than 3 elements
ReqLargeData == [shape |-> "dict", size |-> 1, data |-> [shape |-> "list", size |-> 4]]

\* the same, typed as research
ReqLargeResearch ==
    [shape |-> "dict", size |-> 2, type |-> "research",
     data |-> [shape |-> "list", size |-> 4]]

\* the requests handed to handle_request (fewer next to a list answer)
RequestPayloads ==
    IF llm.kind = "list" THEN {ReqGeneral, ReqComplexFlag}
    ELSE {ReqGeneral, ReqResearch, ReqComplexFlag, ReqLargeData, ReqLargeResearch}

\* o.handle_request(sender, payload), called on an LLMCoordinator
HandleRequest(o, sender, payload) ==
    /\ nops < MaxCalls
    /\ "coordinate_complex_task" \in DOMAIN task_routes[o]
    /\ Finish("handle_request", o,
              Message(sender, agent_id[o], "handle_request", payload),
              llm_handle_request(World, o, sender, payload))

\* bus.broadcast(m) in the coordinator system
CoordBroadcast(m) ==
    /\ nops < MaxCalls
    /\ llm.kind # "list"
    /\ Finish("broadcast", Bus, m, broadcast(World, m))

\* o.receive_message(m) in the coordinator system
CoordReceive(o, m) ==
    /\ nops < MaxCalls
    /\ llm.kind # "list"
    /\ Finish("receive", o, m, receive_message(World, o, m))

NextCoord ==
    \/ \E o \in Objs : Register(o)
    \/ \E m \in CoordMsgs : CoordDeliver(m)
    \/ CoordBroadcast(CoordBroadcastMsg)
    \/ \E o \in Objs : CoordReceive(o, CoordReceiveMsg)
    \/ \E o \in Objs, sender \in ComplexSenders : \E payload \in ComplexPayloads :
          ComplexTask(o, sender, payload)
    \/ \E o \in Objs : \E payload \in RequestPayloads : HandleRequest(o, "user", payload)

SpecCoord == InitCoord /\ [][NextCoord]_vars

-----------------------------------------------------------------------------
(* Threads: a third system, in which the loop of a broadcast runs in one     *)
(* thread while another thread registers agents. Under the interpreter lock  *)
(* the other thread's register falls between two steps of the loop; the      *)
(* iterator of self.agents.items() notices a change of the dict's size on    *)
(* its next step and raises RuntimeError, and it yields whatever value a key *)
(* holds when the step is taken.                                             *)

\* o1 = Agent("a", bus), o2 = Agent("b", bus), o3 = Agent("b", bus)
InitConc ==
    /\ agent_id = [o \in Objs |-> IF o = "o1" THEN "a" ELSE "b"]
    /\ max_context = [o \in Objs |-> MaxCtx]
    /\ message_bus = [o \in Objs |-> Bus]
    /\ task_routes = [o \in Objs |-> BaseRoutes]
    /\ context = [o \in Objs |-> <<>>]
    /\ agents = <<>>
    /\ hist = [o \in Objs |-> <<>>]
    /\ last = [op |-> "init", obj |-> Bus, msg |-> NoMsg, pre |-> [o \in Objs |-> <<>>],
               trace |-> <<>>, exc |-> NoExc]
    /\ nops = 0
    /\ llm = MockAnswer
    /\ iter = IterIdle

\* bus.broadcast(m) is entered: sender is read and the iterator created
BroadcastBegin(m) ==
    /\ nops < MaxOps
    /\ iter.state # "running"
    /\ iter' = [state |-> "running", msg |-> m, pos |-> 1, used |-> Len(agents),
                began |-> agents, pre |-> context, trace |-> <<>>]
    /\ nops' = nops + 1
    /\ UNCHANGED <<agent_id, max_context, message_bus, task_routes, context, agents,
                   hist, last, llm>>

\* the broadcast has left its loop, normally or by the exception exc
BroadcastEnd(trace, exc) ==
    /\ iter' = [state |-> "ended", msg |-> iter.msg, began |-> iter.began,
                ended |-> agents, trace |-> trace, exc |-> exc]
    /\ last' = [op |-> "broadcast", obj |-> Bus, msg |-> iter.msg, pre |-> iter.pre,
                trace |-> trace, exc |-> exc]

\* one step of the for loop of MessageBus.broadcast: the iterator's next()
\* and, for an entry that is not the sender's, the loop body
BroadcastStep ==
    /\ iter.state = "running"
    /\ UNCHANGED <<agent_id, max_context, message_bus, task_routes, agents, nops, llm>>
    /\ IF iter.used # Len(agents)
       THEN BroadcastEnd(iter.trace, "RuntimeError") /\ UNCHANGED <<context, hist>>
       ELSE IF iter.pos > Len(agents)
       THEN BroadcastEnd(iter.trace, NoExc) /\ UNCHANGED <<context, hist>>
       ELSE IF agents[iter.pos].id = Get(iter.msg, "sender", None)
       THEN /\ iter' = [iter EXCEPT !.pos = @ + 1]
            /\ UNCHANGED <<context, hist, last>>
       ELSE LET w == receive_message([context |-> context, hist |-> hist,
                                      trace |-> iter.trace, exc |-> NoExc],
                                     agents[iter.pos].obj,
                                     WithRecipient(iter.msg, agents[iter.pos].id))
            IN  /\ context' = w.context
                /\ hist' = w.hist
                /\ IF Raised(w) THEN BroadcastEnd(w.trace, w.exc)
                   ELSE /\ iter' = [iter EXCEPT !.pos = @ + 1, !.trace = w.trace]
                        /\ UNCHANGED last

NextConc ==
    \/ \E o \in Objs : Register(o)
    \/ \E m \in BroadcastMsgs : BroadcastBegin(m)
    \/ BroadcastStep

SpecConc == InitConc /\ [][NextConc]_vars

TypeOK ==
    /\ \A o \in Objs : Len(context[o]) <= MaxCtx
    /\ nops \in 0..MaxOps

-----------------------------------------------------------------------------
(* Vocabulary of the properties *)

WellFormed(m) == RequiredFields \subseteq DOMAIN m

\* the last k entries of s
LastK(s, k) == IF Len(s) <= k THEN s ELSE SubSeq(s, Len(s) - k + 1, Len(s))

\* the events of one kind in a trace
EventsOf(tr, ev) == SelectSeq(tr, LAMBDA e : e.ev = ev)

\* the messages object o accepted (well-formed, addressed to it) in a trace
AcceptedBy(tr, o) ==
    LET evs == SelectSeq(tr, LAMBDA e : /\ e.ev = "receive"
                                        /\ e.at = o
                                        /\ WellFormed(e.msg)
                                        /\ e.msg.recipient = agent_id[o])
    IN  [i \in 1..Len(evs) |-> evs[i].msg]

\* the last public call handed message last.msg to object o's receive_message:
\* directly, or through deliver and the registry
ReceivedAt(o) ==
    \/ last.op = "receive" /\ last.obj = o
    \/ /\ last.op = "deliver"
       /\ HasKey(agents, Get(last.msg, "recipient", None))
       /\ agents[Lookup(agents, Get(last.msg, "recipient", None))].obj = o

\* the bus.deliver calls made by handlers inside the last public call
\* (a public deliver or send accounts for the first deliver of the trace)
NestedDelivers ==
    LET ds == EventsOf(last.trace, "deliver")
    IN  IF last.op \in {"deliver", "send"} /\ ds # <<>> THEN Tail(ds) ELSE ds

-----------------------------------------------------------------------------
(* C1 .. C10 *)

\* C1: the context of every agent never holds more than max_context
\* messages, and a valid message addressed to the agent is never turned away
\* for lack of room: after a call in which the agent accepted messages, its
\* context ends with the one it accepted last.
C1_ContextBounded ==
    \A o \in Objs :
        /\ Len(context[o]) <= max_context[o]
        /\ AcceptedBy(last.trace, o) # <<>> =>
              /\ context[o] # <<>>
              /\ context[o][Len(context[o])] =
                    AcceptedBy(last.trace, o)[Len(AcceptedBy(last.trace, o))]

\* an agent whose context was full accepted a further message
C1_Witness ==
    \E o \in Objs : /\ Len(last.pre[o]) = max_context[o]
                    /\ AcceptedBy(last.trace, o) # <<>>
                    /\ Len(context[o]) = max_context[o]

\* C2: once an agent with max_context = k has received n > k valid messages
\* addressed to it, its context is exactly the last k of them, in the
\* order they were delivered.
C2_LastKRetained ==
    \A o \in Objs :
        Len(hist[o]) > max_context[o] =>
            /\ Len(context[o]) = max_context[o]
            /\ context[o] = SubSeq(hist[o], Len(hist[o]) - max_context[o] + 1,
                                   Len(hist[o]))

\* the agent with max_context = 2 received three messages, the retained two
\* being different from each other
C2_Witness ==
    /\ max_context["o1"] >= 2
    /\ Len(hist["o1"]) > max_context["o1"]
    /\ context["o1"][1] # context["o1"][2]

\* C3 (as claimed): when the handler routed for a task raises (here: a reply
\* attempted by an agent that has no bus), receive and the deliver that called
\* it return normally.
C3_HandlerFailureContained ==
    \A o \in Objs :
        ( /\ ReceivedAt(o)
          /\ WellFormed(last.msg)
          /\ last.msg.recipient = agent_id[o]
          /\ last.msg.task \in DOMAIN task_routes[o]
          /\ last.msg.sender # agent_id[o]
          /\ message_bus[o] = None )
        => last.exc = NoExc

\* C4 (as claimed): a message lacking sender, recipient or task is dropped:
\* receive returns without raising, the context is unchanged, no handler runs
\* and nothing is sent.
C4_MalformedDropped ==
    \A o \in Objs :
        (ReceivedAt(o) /\ ~WellFormed(last.msg)) =>
            /\ last.exc = NoExc
            /\ context = last.pre
            /\ EventsOf(last.trace, "handler") = <<>>
            /\ NestedDelivers = <<>>

\* C5 (as claimed): a well-formed message whose recipient is not the
\* receiving agent's id is dropped: receive does not raise, the context is
\* unchanged and no handler, not even the unknown-task fallback, runs.
C5_MisaddressedDropped ==
    \A o \in Objs :
        ( /\ last.op = "receive" /\ last.obj = o
          /\ WellFormed(last.msg)
          /\ last.msg.recipient # agent_id[o] )
        => /\ last.exc = NoExc
           /\ context = last.pre
           /\ EventsOf(last.trace, "handler") = <<>>

\* C6: delivering a message whose recipient is not registered, directly or
\* through the send of an agent that has a bus, raises nothing and changes no
\* context; send hands the message to deliver without checking the recipient.
C6_UnknownRecipientDropped ==
    ( /\ last.op \in {"deliver", "send"}
      /\ last.op = "send" => message_bus[last.obj] # None
      /\ ~HasKey(agents, Get(last.msg, "recipient", None)) )
    => /\ last.exc = NoExc
       /\ context = last.pre
       /\ last.trace = << Event("deliver", Bus, last.msg, "") >>

\* both ways: a deliver and a send to an id nobody is registered under, while
\* some agent is registered and holds context
C6_Witness ==
    /\ last.op = "send"
    /\ message_bus[last.obj] # None
    /\ ~HasKey(agents, last.msg.recipient)
    /\ agents # <<>>
    /\ \E o \in Objs : context[o] # <<>>

\* C7: send on an agent that has no bus attached fails with an error raised to
\* the caller, and nothing is delivered to anyone.
C7_NoTransportRaises ==
    (last.op = "send" /\ message_bus[last.obj] = None) =>
        /\ last.exc = "RuntimeError"
        /\ last.trace = <<>>
        /\ context = last.pre

\* the bus-less agent tried to send to a registered agent
C7_Witness ==
    /\ last.op = "send"
    /\ message_bus[last.obj] = None
    /\ HasKey(agents, last.msg.recipient)

\* C8 (as claimed): a ping from A delivered to B, both registered and A # B,
\* makes B reply with exactly one message, a pong with payload
\* {status: "alive"}, so that A's context ends with the pong and B's with the
\* ping.
C8_PingPong ==
    ( /\ last.op = "deliver"
      /\ WellFormed(last.msg)
      /\ last.msg.task = "ping"
      /\ last.msg.sender # last.msg.recipient
      /\ HasKey(agents, last.msg.sender)
      /\ HasKey(agents, last.msg.recipient)
      /\ message_bus[agents[Lookup(agents, last.msg.recipient)].obj] # None )
    => LET A == agents[Lookup(agents, last.msg.sender)].obj
           B == agents[Lookup(agents, last.msg.recipient)].obj
           pong == Message(last.msg.recipient, last.msg.sender, "pong", PongPayload)
       IN  /\ NestedDelivers = << Event("deliver", Bus, pong, "") >>
           /\ context[A] # <<>> /\ context[A][Len(context[A])] = pong
           /\ context[B] # <<>> /\ context[B][Len(context[B])] = last.msg

\* C9: an agent that receives a ping from itself sends nothing (no handler
\* reaches bus.deliver) and its context grows by exactly that ping; no other
\* context changes.
C9_SelfPingSilent ==
    \A o \in Objs :
        ( /\ ReceivedAt(o)
          /\ WellFormed(last.msg)
          /\ last.msg.task = "ping"
          /\ last.msg.recipient = agent_id[o]
          /\ last.msg.sender = agent_id[o] )
        => /\ NestedDelivers = <<>>
           /\ context[o] = LastK(Append(last.pre[o], last.msg), max_context[o])
           /\ \A p \in Objs \ {o} : context[p] = last.pre[p]

\* a registered agent with room in its context got its own ping from the bus
C9_Witness ==
    /\ last.op = "deliver"
    /\ WellFormed(last.msg)
    /\ last.msg.task = "ping"
    /\ last.msg.sender = last.msg.recipient
    /\ HasKey(agents, last.msg.recipient)
    /\ \E o \in Objs : /\ ReceivedAt(o)
                       /\ last.pre[o] # <<>>
                       /\ Len(last.pre[o]) < max_context[o]

\* the copies a broadcast of m owes: one per registered agent whose id is not
\* m's sender, in registry order, recipient rewritten
RECURSIVE ExpectedCopies(_, _)
ExpectedCopies(m, i) ==
    IF i > Len(agents) THEN <<>>
    ELSE IF agents[i].id # Get(m, "sender", None)
    THEN << Event("receive", agents[i].obj, WithRecipient(m, agents[i].id), "") >>
         \o ExpectedCopies(m, i + 1)
    ELSE ExpectedCopies(m, i + 1)

\* C10 (as claimed): broadcast hands every registered agent other than the
\* sender exactly one copy with the recipient rewritten to its id, in registry
\* order, and hands the sender's agent none.
C10_BroadcastReachesAll ==
    last.op = "broadcast" =>
        LET isCopy(e) == \E i \in 1..Len(agents) :
                            e.msg = WithRecipient(last.msg, agents[i].id)
            rcv == SelectSeq(EventsOf(last.trace, "receive"), isCopy)
        IN  rcv = ExpectedCopies(last.msg, 1)

-----------------------------------------------------------------------------
(* C11 .. C20 *)

\* C11 (as claimed): in a broadcast, a drop or failure at one recipient does
\* not keep the others from their copy: every registered agent other than the
\* sender has its receive_message entered with its copy.
C11_BroadcastIndependent ==
    last.op = "broadcast" =>
        \A i \in 1..Len(agents) :
            agents[i].id # Get(last.msg, "sender", None) =>
                \E j \in 1..Len(last.trace) :
                    last.trace[j] = Event("receive", agents[i].obj,
                                          WithRecipient(last.msg, agents[i].id), "")

\* C18 (as claimed): a valid message addressed to the agent whose task has no
\* entry in its route table makes receive return without raising, and the
\* agent sends nothing.
C18_UnknownTaskSilent ==
    \A o \in Objs :
        ( /\ ReceivedAt(o)
          /\ WellFormed(last.msg)
          /\ last.msg.recipient = agent_id[o]
          /\ last.msg.task \notin DOMAIN task_routes[o] )
        => /\ last.exc = NoExc
           /\ NestedDelivers = <<>>

\* the item count the reply to process_data is to report for a payload
ItemCount(payload) ==
    IF payload.shape \in {"list", "tuple", "dict"} THEN payload.size ELSE 0

\* C19 (as claimed): on receiving process_data an agent (with a bus) sends
\* the sender exactly one data_processed message whose result reports the
\* payload's item count, and nothing is raised.
C19_ProcessDataReply ==
    \A o \in Objs :
        ( /\ ReceivedAt(o)
          /\ WellFormed(last.msg)
          /\ last.msg.recipient = agent_id[o]
          /\ last.msg.task = "process_data"
          /\ message_bus[o] # None )
        => /\ last.exc = NoExc
           /\ NestedDelivers =
                << Event("deliver", Bus,
                         Message(agent_id[o], last.msg.sender, "data_processed",
                                 [shape |-> "dict", size |-> 1,
                                  result |-> [summary |->
                                     ItemCount(Get(last.msg, "payload", EmptyDict))]]),
                         "") >>

\* the indices of the subtasks the last handle_complex_task call evaluated,
\* gated out ("skip") or sent ("dispatch"), in the order of the events
Indices(ev) ==
    LET evs == EventsOf(last.trace, ev)
    IN  [k \in 1..Len(evs) |-> evs[k].msg.index]

\* the decomposition the last handle_complex_task call worked on
Decomposition == llm_decompose(last.msg.payload)

\* the dependencies of the subtask with index i
DepsOf(i) == Get(Decomposition.val[i + 1], "dependencies", <<>>)

\* C12 (as claimed): handle_complex_task dispatches a subtask only if every
\* index in its dependencies is the index of a subtask dispatched earlier in
\* the same invocation.
C12_DependenciesDispatched ==
    (last.op = "handle_complex_task" /\ Decomposition.exc = NoExc) =>
        LET disp == Indices("dispatch")
        IN  \A k \in 1..Len(disp) :
                \A d \in 1..Len(DepsOf(disp[k])) :
                    \E j \in 1..(k - 1) : disp[j] = DepsOf(disp[k])[d]

\* C13 (as claimed): every invocation of handle_complex_task ends by sending
\* exactly one coordination_complete message to the original sender, after
\* all subtask sends, reporting the number of subtasks of the decomposition
\* and the number of subtasks dispatched.
C13_CompletionReported ==
    last.op = "handle_complex_task" =>
        LET dels == EventsOf(last.trace, "deliver")
            cc == SelectSeq(dels, LAMBDA e : e.msg.task = "coordination_complete")
        IN  /\ Decomposition.exc = NoExc
            /\ Len(cc) = 1
            /\ dels[Len(dels)] = cc[1]
            /\ last.trace[Len(last.trace)] = cc[1]
            /\ cc[1].msg = Message(agent_id[last.obj], last.msg.sender,
                                   "coordination_complete",
                                   [shape |-> "dict", size |-> 3,
                                    subtasks |-> Len(Decomposition.val),
                                    executed |-> Len(Indices("dispatch")),
                                    original_request |-> last.msg.payload])
            /\ Len(Indices("dispatch")) <= Len(Decomposition.val)

FallbackSubtask(request) ==
    LET type == Get(request, "type", "general")
    IN  IF type = "research" THEN [agent |-> "research_agent", task |-> "research"]
        ELSE IF type = "creative"
        THEN [agent |-> "creative_agent", task |-> "create_content"]
        ELSE [agent |-> "llm_agent", task |-> "analyze"]

\* C15 (as claimed): whenever the generation capability raises or answers
\* something that is not a JSON list, handle_complex_task dispatches exactly
\* the one subtask chosen by the request's type and reports subtasks = 1,
\* executed = 1.
C15_FallbackOneSubtask ==
    (last.op = "handle_complex_task" /\ llm.kind # "list") =>
        LET dels == EventsOf(last.trace, "deliver")
        IN  /\ Indices("dispatch") = <<0>>
            /\ Indices("skip") = <<>>
            /\ Len(dels) = 2
            /\ dels[1].msg.recipient = FallbackSubtask(last.msg.payload).agent
            /\ dels[1].msg.task = FallbackSubtask(last.msg.payload).task
            /\ dels[2].msg.task = "coordination_complete"
            /\ dels[2].msg.recipient = last.msg.sender
            /\ dels[2].msg.payload.subtasks = 1
            /\ dels[2].msg.payload.executed = 1

\* C16 (as claimed): a CoordinatorAgent that receives handle_request with
\* payload P sends exactly one process_data message carrying P to
\* research_agent, and the worker's data_processed reply goes to the
\* coordinator.
C16_CoordinatorFanOut ==
    \A o \in Objs :
        ( /\ ReceivedAt(o)
          /\ WellFormed(last.msg)
          /\ last.msg.recipient = agent_id[o]
          /\ last.msg.task = "handle_request"
          /\ "handle_request" \in DOMAIN task_routes[o]
          /\ task_routes[o]["handle_request"] = "handle_request"
          /\ message_bus[o] # None )
        => LET P == Get(last.msg, "payload", EmptyDict)
               sub == Event("deliver", Bus,
                            Message(agent_id[o], "research_agent", "process_data", P), "")
               reply == Event("deliver", Bus,
                              Message("research_agent", agent_id[o], "data_processed",
                                      [shape |-> "dict", size |-> 1,
                                       result |-> [summary |-> ItemCount(P)]]), "")
           IN  NestedDelivers =
                  IF HasKey(agents, "research_agent") THEN <<sub, reply>> ELSE <<sub>>

\* the object registered under an id
Registered(o) == \E i \in 1..Len(agents) : agents[i].obj = o

\* C17: the registry holds at most one agent per id, the one registered last;
\* what goes through the bus reaches only registered agents under their id,
\* and the context of an agent that is not (or no longer) registered does
\* not change.
C17_LastRegistrationWins ==
    /\ \A i, j \in 1..Len(agents) : agents[i].id = agents[j].id => i = j
    /\ last.op = "register" =>
          /\ HasKey(agents, agent_id[last.obj])
          /\ agents[Lookup(agents, agent_id[last.obj])].obj = last.obj
    /\ last.op \in {"deliver", "handle_complex_task"} =>
          /\ \A o \in Objs : ~Registered(o) => context[o] = last.pre[o]
          /\ \A k \in 1..Len(last.trace) :
                last.trace[k].ev = "receive" =>
                   /\ HasKey(agents, last.trace[k].msg.recipient)
                   /\ agents[Lookup(agents, last.trace[k].msg.recipient)].obj
                         = last.trace[k].at

\* an agent received a message, was replaced under its id, and the next
\* delivery to that id went to its successor
C17_Witness ==
    /\ last.op = "deliver"
    /\ \E o, p \in Objs :
          /\ o # p
          /\ agent_id[o] = agent_id[p]
          /\ ~Registered(o) /\ Registered(p)
          /\ context[o] # <<>>
          /\ last.pre[p] = <<>> /\ context[p] = <<last.msg>>

\* C20 (as claimed): subtask i (of a decomposition whose items carry agent,
\* task and payload) is dispatched if and only if its dependencies list is
\* empty or every dependency value is less than the number of subtasks
\* dispatched before i.
C20_CountThreshold ==
    ( /\ last.op = "handle_complex_task"
      /\ Decomposition.exc = NoExc
      /\ \A i \in 1..Len(Decomposition.val) :
            {"agent", "task", "payload"} \subseteq DOMAIN Decomposition.val[i] ) =>
        LET disp == Indices("dispatch")
            before(i) == Cardinality({k \in 1..Len(disp) : disp[k] < i})
        IN  \A i \in 0..(Len(Decomposition.val) - 1) :
                (\E k \in 1..Len(disp) : disp[k] = i)
                <=> ( \/ DepsOf(i) = <<>>
                      \/ \A d \in 1..Len(DepsOf(i)) : DepsOf(i)[d] < before(i) )

-----------------------------------------------------------------------------
(* C21 .. C30 *)

\* C21: handle_complex_task never dispatches a subtask whose dependencies
\* contain its own index or a greater one, whatever the decomposition and
\* whatever was skipped before: every dependency of a dispatched subtask is
\* less than the subtask's index.
C21_SelfOrLaterNeverDispatched ==
    (last.op = "handle_complex_task" /\ Decomposition.exc = NoExc) =>
        LET disp == Indices("dispatch")
        IN  \A k \in 1..Len(disp) :
                \A d \in 1..Len(DepsOf(disp[k])) : DepsOf(disp[k])[d] < disp[k]

\* every subtask before index i >= 1 was sent, and the subtask at i, which
\* names i itself among its dependencies, was gated out
C21_Witness ==
    /\ last.op = "handle_complex_task"
    /\ Decomposition.exc = NoExc
    /\ \E k \in 1..Len(Indices("skip")) :
          LET i == Indices("skip")[k]
          IN  /\ i >= 1
              /\ \E d \in 1..Len(DepsOf(i)) : DepsOf(i)[d] = i
              /\ \A j \in 0..(i - 1) :
                    \E n \in 1..Len(Indices("dispatch")) : Indices("dispatch")[n] = j

\* a message whose sender, recipient and task are present and not empty
NonEmptyFields(m) ==
    /\ WellFormed(m)
    /\ m.sender # "" /\ m.recipient # "" /\ m.task # ""

\* C22 (as claimed): every message ever recorded in an agent's context or
\* passed to a handler has non-empty sender, recipient and task.
C22_NonEmptyFields ==
    /\ \A o \in Objs : \A k \in 1..Len(hist[o]) : NonEmptyFields(hist[o][k])
    /\ \A p \in 1..Len(last.trace) :
          last.trace[p].ev = "handler" => NonEmptyFields(last.trace[p].msg)

\* C23 (as claimed): an agent that is handed its own process_data message M
\* by the bus receives, while M's handler is still running, the reply M2 it
\* sends itself; M2 is handled to the end inside M's handler, the call returns
\* normally, and the context lists M before M2.
C23_ReentrantReceive ==
    \A o \in Objs :
        ( /\ last.op = "deliver"
          /\ ReceivedAt(o)
          /\ WellFormed(last.msg)
          /\ last.msg.task = "process_data"
          /\ last.msg.sender = agent_id[o]
          /\ last.msg.recipient = agent_id[o]
          /\ task_routes[o]["process_data"] = "handle_process_data"
          /\ message_bus[o] # None )
        => LET M == last.msg
               M2 == Message(agent_id[o], agent_id[o], "data_processed",
                             [shape |-> "dict", size |-> 1,
                              result |-> process_data(Get(M, "payload", EmptyDict))])
           IN  /\ last.exc = NoExc
               /\ last.trace = << Event("deliver", Bus, M, ""),
                                  Event("receive", o, M, ""),
                                  Event("handler", o, M, "handle_process_data"),
                                  Event("deliver", Bus, M2, ""),
                                  Event("receive", o, M2, ""),
                                  Event("handler", o, M2, "handle_unknown_task") >>
               /\ context[o] = LastK(last.pre[o] \o <<M, M2>>, max_context[o])

RECURSIVE EvictUntil(_, _)
\* remove the oldest entries until no more than k are left
EvictUntil(ctx, k) == IF Len(ctx) > k THEN EvictUntil(Tail(ctx), k) ELSE ctx

\* the eviction as specified: append, then evict from the front
SpecifiedRecord(ctx, m, k) == EvictUntil(Append(ctx, m), k)

RECURSIVE SpecifiedContext(_, _)
\* the context the specified eviction builds from the messages h, one by one
SpecifiedContext(h, k) ==
    IF h = <<>> THEN <<>>
    ELSE SpecifiedRecord(SpecifiedContext(SubSeq(h, 1, Len(h) - 1), k), h[Len(h)], k)

\* C24: for every agent (max_context >= 1) and every sequence of valid
\* messages it received, the context the code keeps (evict the oldest entry
\* when full, then append) is the context the specified eviction (append,
\* then evict the oldest entries down to max_context) builds from the same
\* messages.
C24_EvictionEquivalent ==
    \A o \in Objs :
        max_context[o] >= 1 => context[o] = SpecifiedContext(hist[o], max_context[o])

\* the last call made a full context of two or more entries lose its oldest
C24_Witness ==
    \E o \in Objs :
        /\ max_context[o] >= 2
        /\ Len(last.pre[o]) = max_context[o]
        /\ AcceptedBy(last.trace, o) # <<>>
        /\ \A k \in 1..Len(context[o]) : context[o][k] # last.pre[o][1]

\* what a step may do to the agents: ids and route tables stay as they are,
\* and a context changes by exactly the messages its agent accepted in the
\* call (well-formed, addressed to it, handed to its own receive_message)
C25_Step ==
    /\ agent_id' = agent_id
    /\ task_routes' = task_routes
    /\ \A o \in Objs :
          context'[o] = LastK(context[o] \o AcceptedBy(last'.trace, o), max_context[o])

\* every agent, coordinators included, routes ping and process_data to the
\* base handlers
C25_BaseRoutesKept ==
    \A o \in Objs :
        /\ {"ping", "process_data"} \subseteq DOMAIN task_routes[o]
        /\ task_routes[o]["ping"] = "handle_ping"
        /\ task_routes[o]["process_data"] = "handle_process_data"

\* C25: no register, deliver or broadcast and no receipt of a message changes
\* an agent's agent_id or route table; an agent's context changes only inside
\* its own receive of a message addressed to it; every agent keeps its routes
\* for ping and process_data in every reachable state.
C25_Frame == []C25_BaseRoutesKept /\ [][C25_Step]_vars

\* a coordinator was handed a message addressed to another agent and left
\* every context as it was, while the addressee had recorded its own copy
C25_Witness ==
    /\ last.op = "receive"
    /\ "handle_request" \in DOMAIN task_routes[last.obj]
    /\ last.msg.recipient # agent_id[last.obj]
    /\ context = last.pre
    /\ \E o \in Objs : /\ agent_id[o] = last.msg.recipient
                       /\ Len(context[o]) >= 1
                       /\ context[o][Len(context[o])] = last.msg

\* C26: a valid message addressed to the agent is recorded before the handler
\* is looked up and stays recorded whatever follows (unknown task, a raising
\* handler, an exception leaving receive): it is the first message the agent
\* accepts in the call, what the agent accepted is in its history and, up to
\* eviction, in its context, and a handler is only entered for a message
\* whose receive came right before.
C26_RecordedBeforeDispatch ==
    \A o \in Objs :
        ( /\ ReceivedAt(o)
          /\ WellFormed(last.msg)
          /\ last.msg.recipient = agent_id[o]
          /\ max_context[o] >= 1 )
        => LET acc == AcceptedBy(last.trace, o)
           IN  /\ acc # <<>>
               /\ acc[1] = last.msg
               /\ Len(hist[o]) >= Len(acc)
               /\ SubSeq(hist[o], Len(hist[o]) - Len(acc) + 1, Len(hist[o])) = acc
               /\ context[o] = LastK(last.pre[o] \o acc, max_context[o])
               /\ \A p \in 1..Len(last.trace) :
                     (last.trace[p].ev = "handler" /\ last.trace[p].at = o) =>
                        /\ p > 1
                        /\ last.trace[p - 1] = Event("receive", o, last.trace[p].msg, "")

\* a message with a task the agent does not route reached an agent whose
\* context was full; the call raised, and the message is the newest entry
C26_Witness ==
    \E o \in Objs :
        /\ ReceivedAt(o)
        /\ WellFormed(last.msg)
        /\ last.msg.recipient = agent_id[o]
        /\ last.msg.task \notin DOMAIN task_routes[o]
        /\ last.exc # NoExc
        /\ Len(last.pre[o]) = max_context[o]
        /\ context[o][Len(context[o])] = last.msg

\* C27 (as claimed): an agent without a bus that receives a task whose
\* handler replies (a ping from another sender, or process_data) contains the
\* failure of the reply's send: receive returns without raising, the message
\* stays recorded, and nothing is delivered anywhere.
C27_NoTransportContained ==
    \A o \in Objs :
        ( /\ ReceivedAt(o)
          /\ WellFormed(last.msg)
          /\ last.msg.recipient = agent_id[o]
          /\ message_bus[o] = None
          /\ \/ last.msg.task = "ping" /\ last.msg.sender # agent_id[o]
             \/ last.msg.task = "process_data" )
        => /\ last.exc = NoExc
           /\ context[o] = LastK(Append(last.pre[o], last.msg), max_context[o])
           /\ \A p \in Objs \ {o} : context[p] = last.pre[p]
           /\ NestedDelivers = <<>>

\* C28 (as claimed): no logging call on the receive path raises back into
\* receive: a receive, and the deliver or broadcast that calls it, never ends
\* in an exception.
C28_LoggingNeverRaises ==
    last.op \in {"receive", "deliver", "broadcast"} => last.exc = NoExc

\* the tasks of the messages agents send in reply
ReplyTasks == {"pong", "data_processed", "coordination_complete"}

\* C29: every top-level call on a bus of base agents and coordinators ends
\* after finitely many nested deliveries: no agent routes a reply task, a
\* reply that is handled ends in the unknown-task fallback, which sends
\* nothing, and the number of deliveries of one call is bounded (one subtask
\* message and one reply per subtask, the request and the completion).
C29_RepliesEndChains ==
    /\ \A o \in Objs : ReplyTasks \cap DOMAIN task_routes[o] = {}
    /\ \A p \in 1..Len(last.trace) :
          ( /\ last.trace[p].ev = "handler"
            /\ last.trace[p].msg.task \in ReplyTasks )
          => last.trace[p].h = "handle_unknown_task"
    /\ Len(EventsOf(last.trace, "deliver")) <= 2 * MaxSubtasks + 2

\* a coordinator registered under the id of its own default worker was
\* delivered a handle_request, after an agent had received a reply
C29_Witness ==
    /\ last.op = "deliver"
    /\ last.msg.task = "handle_request"
    /\ \E o \in Objs :
          /\ ReceivedAt(o)
          /\ "handle_request" \in DOMAIN task_routes[o]
          /\ task_routes[o]["handle_request"] = "handle_request"
          /\ decompose_request(last.msg.payload)[1].agent = agent_id[o]
    /\ \E o \in Objs : \E k \in 1..Len(hist[o]) : hist[o][k].task \in ReplyTasks

\* C30: in every reachable state every message in an agent's context has
\* the fields sender, recipient and task, and its recipient is that agent's
\* agent_id, whether it came through deliver, broadcast or a direct receive.
C30_ContextAddressedToOwner ==
    \A o \in Objs :
        \A k \in 1..Len(context[o]) :
            /\ {"sender", "recipient", "task"} \subseteq DOMAIN context[o][k]
            /\ context[o][k].recipient = agent_id[o]

\* a broadcast left its copy, recipient rewritten, in the context of an agent
\* the message was not addressed to
C30_Witness ==
    /\ last.op = "broadcast"
    /\ WellFormed(last.msg)
    /\ \E o \in Objs :
          /\ agent_id[o] # last.msg.recipient
          /\ context[o] # <<>>
          /\ context[o][Len(context[o])] = WithRecipient(last.msg, agent_id[o])
          /\ context[o] # last.pre[o]

-----------------------------------------------------------------------------
(* C31 .. C33 *)

\* C31 (as claimed): what handle_complex_task counts as executed is the
\* sends: a call that sent at least one subtask (to an unregistered agent, to
\* one that does not route the task, to one whose handling fails) goes on to
\* evaluate every subtask, lets every send count towards the threshold of the
\* later subtasks, and reports the number of sends as executed.
C31_ExecutedCountsSends ==
    ( /\ last.op = "handle_complex_task"
      /\ Decomposition.exc = NoExc
      /\ \A i \in 1..Len(Decomposition.val) :
            {"agent", "task", "payload"} \subseteq DOMAIN Decomposition.val[i]
      /\ Indices("dispatch") # <<>> ) =>
        LET disp == Indices("dispatch")
            before(i) == Cardinality({k \in 1..Len(disp) : disp[k] < i})
            cc == SelectSeq(EventsOf(last.trace, "deliver"),
                            LAMBDA e : e.msg.task = "coordination_complete")
        IN  /\ Len(Indices("evaluate")) = Len(Decomposition.val)
            /\ \A i \in 0..(Len(Decomposition.val) - 1) :
                  (\A d \in 1..Len(DepsOf(i)) : DepsOf(i)[d] < before(i))
                  => \E k \in 1..Len(disp) : disp[k] = i
            /\ Len(cc) = 1
            /\ cc[1].msg.payload.executed = Len(disp)

RECURSIVE SubtaskMessages(_, _)
\* the messages an agent with id c sends for a list of subtasks, in order
SubtaskMessages(c, subtasks) ==
    IF subtasks = <<>> THEN <<>>
    ELSE << Event("deliver", Bus,
                  Message(c, subtasks[1].agent, subtasks[1].task, subtasks[1].payload),
                  "") >>
         \o SubtaskMessages(c, Tail(subtasks))

\* C32 (as claimed): handle_request of an LLM coordinator ends with exactly
\* one coordination_complete to the sender when the payload's complex flag
\* is set or its data has more than 3 elements; otherwise the coordinator
\* sends exactly the subtasks of decompose_request, in order, and no
\* coordination_complete.
C32_ComplexPathChoice ==
    last.op = "handle_request" =>
        LET P == last.msg.payload
            c == agent_id[last.obj]
            complex == \/ Get(P, "complex", FALSE)
                       \/ Get(P, "data", EmptyDict).size > 3
            own == SelectSeq(EventsOf(last.trace, "deliver"),
                             LAMBDA e : e.msg.sender = c)
            cc == SelectSeq(own, LAMBDA e : e.msg.task = "coordination_complete")
        IN  IF complex
            THEN /\ Len(cc) = 1
                 /\ own[Len(own)] = cc[1]
                 /\ cc[1].msg.recipient = last.msg.sender
            ELSE /\ cc = <<>>
                 /\ own = SubtaskMessages(c, llm_decompose_request(P))

\* C33 (as claimed): a register call that falls into the loop of a broadcast
\* does not make the broadcast fail or skip recipients: the broadcast ends
\* without an exception and every agent registered when it began, other than
\* the sender, has received its copy exactly once.
C33_RegisterDuringBroadcast ==
    (iter.state = "ended" /\ iter.began # iter.ended) =>
        /\ iter.exc = NoExc
        /\ \A i \in 1..Len(iter.began) :
              iter.began[i].id # Get(iter.msg, "sender", None) =>
                 Len(SelectSeq(iter.trace,
                        LAMBDA e : e = Event("receive", iter.began[i].obj,
                                             WithRecipient(iter.msg, iter.began[i].id),
                                             ""))) = 1

====
